---- MODULE Spec2Model ----
(***************************************************************************)
(* Model of the data-cleaning engine of                                    *)
(* src/mm-gam-cm360-discrepancy-finder-duckdub/actions.py:                 *)
(*   _clean_value    (the Value Normalizer, lines 24-69)                   *)
(*   clean_csv_data  (the Table Cleaner,   lines 72-181)                   *)
(* and of the upload / query layer that uses it:                          *)
(*   upload_reports       (lines 184-247)                                  *)
(*   run_query_on_duckdb  (lines 250-287)                                  *)
(*                                                                         *)
(* Text is a sequence of one-character strings.  A cell value is a record  *)
(* with a "kind" field:                                                    *)
(*   "nan"   the float NaN that read_csv produces for an empty field       *)
(*   "None"  Python None, the canonical missing marker                     *)
(*   "NA"    pandas.NA (nullable Int64 / string columns)                   *)
(*   "NaT"   pandas.NaT (datetime columns)                                 *)
(*   "str"   a Python str, field s                                         *)
(*   "int"   a Python int, field n                                         *)
(*   "float" a float with the value m / 10^e, kept normalised (e = 0 or m  *)
(*           not a multiple of 10).  The texts of the model have at most   *)
(*           15 significant digits, for which binary64 and this decimal    *)
(*           form agree on parsing, equality and repr.  The sign of a      *)
(*           zero is not kept.                                             *)
(*   "ts"    a pandas Timestamp, field s the text it was parsed from       *)
(***************************************************************************)
EXTENDS Integers, Sequences, FiniteSets, TLC

VARIABLES
    value,         \* _clean_value: the raw cell handed to the helper
    target_dtype,  \* _clean_value: the type tag handed to the helper
    cell_out,      \* _clean_value: what the call did
    csv_path,      \* clean_csv_data: the path argument
    file,          \* what the file system holds at csv_path
    dtypes,        \* clean_csv_data: the type specification
    date_texts,    \* the texts the installed date parser accepts
    response,      \* clean_csv_data: what the call did
    db,            \* the DuckDB files under DUCKDB_DIR: path -> table name -> rows
    request,       \* the last call of upload_reports / run_query_on_duckdb
    reply          \* what that call did

vars == <<value, target_dtype, cell_out, csv_path, file, dtypes, date_texts, response,
          db, request, reply>>

\* The variables of the upload / query layer
db_vars == <<db, request, reply>>

\* The variables of the cleaning engine
clean_vars == <<value, target_dtype, cell_out, csv_path, file, dtypes, date_texts, response>>

-----------------------------------------------------------------------------
(* Bounds and sample sets *)

MaxLen == 4

MaxRows == 2

ValueAlphabet == {"0", "1", "5", ".", "-", "$", " "}

RECURSIVE TextsUpTo(_)
TextsUpTo(n) ==
    IF n = 0 THEN {<<>>}
    ELSE LET shorter == TextsUpTo(n - 1)
         IN  shorter \cup {Append(t, c) : t \in {u \in shorter : Len(u) = n - 1}, c \in ValueAlphabet}

Pending == [kind |-> "pending"]

-----------------------------------------------------------------------------
(* Values *)

NaN == [kind |-> "nan"]

None == [kind |-> "None"]

NA == [kind |-> "NA"]

NaT == [kind |-> "NaT"]

Str(s) == [kind |-> "str", s |-> s]

PyInt(n) == [kind |-> "int", n |-> n]

RECURSIVE Normalise(_, _)
Normalise(m, e) ==
    IF e > 0 /\ m % 10 = 0 THEN Normalise(m \div 10, e - 1)
    ELSE [kind |-> "float", m |-> m, e |-> e]

PyFloat(m, e) == Normalise(m, e)

Timestamp(s) == [kind |-> "ts", s |-> s]

\* pd.isna on a scalar
isna(v) == v.kind \in {"nan", "None", "NA", "NaT"}

-----------------------------------------------------------------------------
(* Text helpers *)

Digits == <<"0", "1", "2", "3", "4", "5", "6", "7", "8", "9">>

DigitSet == {Digits[i] : i \in 1..10}

DigitVal(c) == (CHOOSE i \in 1..10 : Digits[i] = c) - 1

Whitespace == {" "}

RECURSIVE lstrip(_)
lstrip(s) == IF s # <<>> /\ Head(s) \in Whitespace THEN lstrip(Tail(s)) ELSE s

RECURSIVE rstrip(_)
rstrip(s) ==
    IF s # <<>> /\ s[Len(s)] \in Whitespace THEN rstrip(SubSeq(s, 1, Len(s) - 1)) ELSE s

\* Mutant: the strip left out.
strip_omitted(s) == s

\* str.strip()
strip(s) == rstrip(lstrip(s))

IsDigit(c) == c \in DigitSet

IsDot(c) == c = "."

IsMinus(c) == c = "-"

IsNumericChar(c) == c \in DigitSet \cup {".", "-"}

IsDigitOrDot(c) == c \in DigitSet \cup {"."}

\* Mutant: the pattern [^0-9\.] , which deletes the minus sign too.
re_sub_without_minus(s) == SelectSeq(s, IsDigitOrDot)

\* re.sub(r"[^0-9\.\-]", "", value_str)
re_sub_non_numeric(s) == SelectSeq(s, IsNumericChar)

RECURSIVE ParseNat(_)
ParseNat(ds) ==
    IF ds = <<>> THEN 0
    ELSE 10 * ParseNat(SubSeq(ds, 1, Len(ds) - 1)) + DigitVal(ds[Len(ds)])

RECURSIVE IndexOf(_, _)
IndexOf(s, c) == IF s = <<>> THEN 0 ELSE IF Head(s) = c THEN 1 ELSE
                 LET r == IndexOf(Tail(s), c) IN IF r = 0 THEN 0 ELSE r + 1

-----------------------------------------------------------------------------
(* pd.to_numeric(text, errors='coerce') on a text made of digits, '.' and  *)
(* '-' only: an optional leading '-', then digits with at most one '.',    *)
(* and at least one digit.  Anything else is coerced to NaN.  A text       *)
(* without '.' parses to an integer, one with '.' to a float.              *)

Unsigned(r) == IF r # <<>> /\ Head(r) = "-" THEN Tail(r) ELSE r

\* Mutant: any text with a digit in it is taken for a number.
IsNumberLoose(r) == Len(SelectSeq(r, IsDigit)) >= 1

IsNumber(r) ==
    LET body == Unsigned(r)
    IN  /\ Len(SelectSeq(body, IsMinus)) = 0
        /\ Len(SelectSeq(body, IsDot)) <= 1
        /\ Len(SelectSeq(body, IsDigit)) >= 1

to_numeric(r) ==
    IF ~IsNumber(r) THEN NaN
    ELSE LET body == Unsigned(r)
             sign == IF Head(r) = "-" THEN -1 ELSE 1
             dot  == IndexOf(body, ".")
             mag  == ParseNat(SelectSeq(body, IsDigit))
         IN  IF dot = 0 THEN PyInt(sign * mag)
             ELSE PyFloat(sign * mag, Len(body) - dot)

\* Mutant: the whole-number test left out, every number cast to int.
IsWholeAlways(v) == TRUE

\* numeric_val == round(numeric_val)
IsWhole(v) == v.kind = "int" \/ (v.kind = "float" /\ v.e = 0)

\* int(numeric_val), for a whole number
int(v) == IF v.kind = "int" THEN v ELSE PyInt(v.m)

\* float(numeric_val)
float(v) == IF v.kind = "int" THEN PyFloat(v.n, 0) ELSE v

-----------------------------------------------------------------------------
(* _clean_value *)

IntTags == {"int", "int64"}

FloatTags == {"float", "float64"}

StrTags == {"str", "string"}

DatetimeTags == {"datetime64[ns]", "datetime"}

\* The outcome of pd.Series([value_str]).astype(target_dtype).iloc[0]:
\* the converted value, or Raised when astype raises.  "datetime64[ns]" is a
\* dtype and converts the texts the date parser accepts; "datetime" and the
\* other tags of the model name no dtype, and astype raises a TypeError.
Raised == [kind |-> "raised"]

\* Mutant: the conversion coerces what it cannot convert instead of raising.
astype_scalar_coerce(value_str, tag, accepted) ==
    IF tag = "datetime64[ns]" /\ value_str \in accepted THEN Timestamp(value_str)
    ELSE NaT

astype_scalar(value_str, tag, accepted) ==
    IF tag = "datetime64[ns]" /\ value_str \in accepted THEN Timestamp(value_str)
    ELSE Raised

_clean_value(v, tag, accepted) ==
    IF isna(v) \/ v = Str(<<>>) THEN None
    ELSE LET value_str == strip(v.s)
         IN  IF value_str = <<>> THEN None
             ELSE IF tag \in IntTags \cup FloatTags THEN
                 LET cleaned_str == re_sub_non_numeric(value_str)
                     numeric_val == to_numeric(cleaned_str)
                 IN  IF cleaned_str = <<>> \/ cleaned_str = <<"-">> THEN None
                     ELSE IF isna(numeric_val) THEN None
                     ELSE IF tag \in IntTags THEN
                         IF IsWhole(numeric_val) THEN int(numeric_val)
                         ELSE float(numeric_val)
                     ELSE float(numeric_val)
             ELSE IF tag \in StrTags THEN Str(value_str)
             ELSE LET conv == astype_scalar(value_str, tag, accepted)
                  IN  IF conv = Raised THEN Str(value_str) ELSE conv

-----------------------------------------------------------------------------
(* The call of _clean_value on one cell *)

ValueTags == IntTags \cup FloatTags \cup StrTags \cup DatetimeTags \cup {"foo"}

RawValues == {NaN} \cup {Str(t) : t \in TextsUpTo(MaxLen)}

\* Whether the date parser accepts a text made of digits, '.', '-' and blanks
\* is the library's choice, so every choice is explored; a text with any other
\* character of the model (a currency sign, a comma) is no date.
DateLike(t) == t # <<>> /\ \A i \in 1..Len(t) : t[i] \in DigitSet \cup {".", "-", " "}

ParserChoices(texts) == SUBSET {t \in texts : DateLike(t)}

StrippedTextOf(v) == IF isna(v) \/ strip(v.s) = <<>> THEN {} ELSE {strip(v.s)}

NoFile == [kind |-> "none"]

InitValue ==
    /\ value \in RawValues
    /\ target_dtype \in ValueTags
    /\ date_texts \in IF target_dtype = "datetime64[ns]"
                      THEN ParserChoices(StrippedTextOf(value)) ELSE {{}}
    /\ cell_out = Pending
    /\ csv_path = ""
    /\ file = NoFile
    /\ dtypes = <<>>
    /\ response = Pending
    /\ db = <<>>
    /\ request = Pending
    /\ reply = Pending

CleanValue ==
    /\ cell_out = Pending
    /\ value # Pending
    /\ cell_out' = _clean_value(value, target_dtype, date_texts)
    /\ UNCHANGED <<value, target_dtype, csv_path, file, dtypes, date_texts, response>>
    /\ UNCHANGED db_vars

NextValue == CleanValue

SpecValue == InitValue /\ [][NextValue]_vars

-----------------------------------------------------------------------------
(* Files and pd.read_csv *)

\* What the file system holds at csv_path.
\*   "absent"  nothing, or not a regular file: Path.is_file() is False
\*   "removed" a file at the is_file() check that is gone when read_csv opens it
\*   "empty"   a file with no columns to parse: read_csv raises EmptyDataError
\*   "garbled" a file read_csv cannot tokenize: it raises ParserError
\*   "csv"     a header and data records; a field is a text, possibly empty
\*             (a field can be quoted, so a record of blank fields is a record)
Absent == [kind |-> "absent"]

Removed == [kind |-> "removed"]

EmptyFile == [kind |-> "empty"]

Garbled == [kind |-> "garbled"]

Csv(header, rows) == [kind |-> "csv", header |-> header, rows |-> rows]

Raise(exc, msg) == [kind |-> "raise", exc |-> exc, msg |-> msg]

Return(v) == [kind |-> "return", v |-> v]

\* Path(csv_path).is_file()
is_file(f) == f.kind # "absent"

\* pd.read_csv(file_path, dtype=str, keep_default_na=False, na_values=['']):
\* every field stays a text, except the empty field, which becomes NaN.
read_field(t) == IF t = <<>> THEN NaN ELSE Str(t)

read_csv(f) ==
    CASE f.kind = "removed" -> Raise("FileNotFoundError", "No such file or directory")
      [] f.kind = "empty"   -> Raise("EmptyDataError", "No columns to parse from file")
      [] f.kind = "garbled" -> Raise("ParserError", "Error tokenizing data")
      [] f.kind = "csv"     ->
            Return([columns |-> f.header,
                    rows    |-> [i \in 1..Len(f.rows) |->
                                   [c \in 1..Len(f.header) |-> read_field(f.rows[i][c])]]])

-----------------------------------------------------------------------------
(* clean_csv_data: the per-column cleaning and type finalisation *)

\* dtypes.get(column_name) is None (or falsy) for a column without a tag.
NoTag == "<none>"

\* raw_dataframe[column_name]
Column(df, c) == [i \in 1..Len(df.rows) |-> df.rows[i][c]]

\* pd.to_numeric(cleaned_series, errors="coerce") on the cleaned objects:
\* numbers stay, None becomes NaN.
to_numeric_series(series) ==
    [i \in 1..Len(series) |-> IF isna(series[i]) THEN NaN ELSE series[i]]

\* .astype("Int64"): NaN becomes NA, a whole number an integer; a float with a
\* fractional part cannot be cast safely and the cast raises TypeError.
astype_Int64(series) ==
    IF \E i \in 1..Len(series) : ~isna(series[i]) /\ ~IsWhole(series[i])
    THEN Raise("TypeError", "cannot safely cast non-equivalent float64 to int64")
    ELSE Return([i \in 1..Len(series) |->
                   IF isna(series[i]) THEN NA ELSE int(series[i])])

\* .astype("float64")
astype_float64(series) ==
    [i \in 1..Len(series) |-> IF isna(series[i]) THEN NaN ELSE float(series[i])]

\* .astype("string"): the nullable string dtype, missing is NA
astype_string(series) ==
    [i \in 1..Len(series) |-> IF isna(series[i]) THEN NA ELSE series[i]]

\* pd.to_datetime(cleaned_series, errors='coerce')
to_datetime(series, accepted) ==
    [i \in 1..Len(series) |->
        IF isna(series[i]) THEN NaT
        ELSE IF series[i].kind = "ts" THEN series[i]
        ELSE IF series[i].s \in accepted THEN Timestamp(series[i].s)
        ELSE NaT]

\* cleaned_series.astype(target_dtype) for a tag that is none of the above:
\* the tags of the model name no dtype, and astype raises TypeError.
astype_other(series, tag) == Raise("TypeError", "data type not understood")

\* raw_dataframe[column_name].str.strip(): NaN stays NaN
str_strip(series) ==
    [i \in 1..Len(series) |-> IF isna(series[i]) THEN NaN ELSE Str(strip(series[i].s))]

\* One iteration of the loop over raw_dataframe.columns: the column of the
\* cleaned table, or the exception the iteration raises.
CleanColumn(series, tag, accepted) ==
    IF tag # NoTag THEN
        LET cleaned_series ==
                [i \in 1..Len(series) |-> _clean_value(series[i], tag, accepted)]
        IN  IF tag \in IntTags THEN astype_Int64(to_numeric_series(cleaned_series))
            ELSE IF tag \in FloatTags THEN
                Return(astype_float64(to_numeric_series(cleaned_series)))
            ELSE IF tag \in StrTags THEN Return(astype_string(cleaned_series))
            ELSE IF tag \in DatetimeTags THEN Return(to_datetime(cleaned_series, accepted))
            ELSE LET final == astype_other(cleaned_series, tag)
                 IN  IF final.kind = "raise" THEN Return(cleaned_series) ELSE final
    ELSE Return(astype_string(str_strip(series)))

\* The loop over the columns, in header order: the cleaned columns, or the
\* exception of the first column that raises.
CleanColumns(df, dt, accepted) ==
    LET n    == Len(df.columns)
        cols == [c \in 1..n |-> CleanColumn(Column(df, c), dt[df.columns[c]], accepted)]
        bad  == {c \in 1..n : cols[c].kind = "raise"}
    IN  IF bad # {} THEN cols[CHOOSE c \in bad : \A d \in bad : c <= d]
        ELSE Return([columns |-> df.columns,
                     nrows   |-> Len(df.rows),
                     data    |-> [c \in 1..n |-> cols[c].v]])

\* Mutant: only NaN and NA are turned into None, NaT is let through.
to_serializable_without_NaT(v) == IF v.kind \in {"nan", "NA"} THEN None ELSE v

\* cleaned_dataframe.to_dict(orient='records') followed by the loop that turns
\* every NaN, NA and NaT into None.  A record is the sequence of its
\* <<key, value>> pairs in insertion order.
to_serializable(v) == IF isna(v) THEN None ELSE v

\* Mutant: the records in reverse row order.
to_records_reversed(cdf) ==
    [i \in 1..cdf.nrows |->
        [c \in 1..Len(cdf.columns) |->
            <<cdf.columns[c], to_serializable(cdf.data[c][cdf.nrows + 1 - i])>>]]

to_records(cdf) ==
    [i \in 1..cdf.nrows |->
        [c \in 1..Len(cdf.columns) |-> <<cdf.columns[c], to_serializable(cdf.data[c][i])>>]]

-----------------------------------------------------------------------------
(* clean_csv_data: the Response *)

\* Response(result=[...]) and Response(result={"error": ...}); the Response's
\* own error field is left unset by both.
ResultList(records) == [kind |-> "response", error |-> None,
                        result |-> [kind |-> "list", items |-> records]]

ResultError(prefix, detail) == [kind |-> "response", error |-> None,
                                result |-> [kind |-> "dict", error |-> <<prefix, detail>>]]

\* The call ended by an exception leaving the function.
Escaped(exc) == [kind |-> "exception", exc |-> exc]

\* The body of the try block.
TryBody(path, f, dt, accepted) ==
    IF ~is_file(f) THEN Return(ResultError("CSV file not found: ", path))
    ELSE LET raw_dataframe == read_csv(f)
         IN  IF raw_dataframe.kind = "raise" THEN raw_dataframe
             ELSE LET cleaned == CleanColumns(raw_dataframe.v, dt, accepted)
                  IN  IF cleaned.kind = "raise" THEN cleaned
                      ELSE Return(ResultList(to_records(cleaned.v)))

\* Mutant: no "except Exception" clause, any other exception leaves the call.
HandleWithoutCatchAll(path, raised) ==
    IF raised.exc = "FileNotFoundError" THEN ResultError("CSV file not found: ", path)
    ELSE IF raised.exc = "EmptyDataError" THEN ResultList(<<>>)
    ELSE Escaped(raised.exc)

\* Mutant: no "except EmptyDataError" clause, the empty file is a generic error.
HandleWithoutEmpty(path, raised) ==
    IF raised.exc = "FileNotFoundError" THEN ResultError("CSV file not found: ", path)
    ELSE ResultError("Error cleaning CSV: ", raised.msg)

\* The except clauses, in order.
Handle(path, raised) ==
    IF raised.exc = "FileNotFoundError" THEN ResultError("CSV file not found: ", path)
    ELSE IF raised.exc = "EmptyDataError" THEN ResultList(<<>>)
    ELSE ResultError("Error cleaning CSV: ", raised.msg)

clean_csv_data(path, f, dt, accepted) ==
    LET outcome == TryBody(path, f, dt, accepted)
    IN  IF outcome.kind = "return" THEN outcome.v ELSE Handle(path, outcome)

-----------------------------------------------------------------------------
(* The call of clean_csv_data on one file *)

Paths == {"gam.csv", "cm360.csv"}

ColNames == {"A", "B"}

TableTags == {"int", "float", "str", "datetime", "foo"}

T_empty == <<>>

T_blank == <<" ">>

T_frac == <<"1", "0", ".", "5">>

T_money == <<" ", "$", "1", ",", "0", "0", "0">>

TableCells == {T_empty, T_blank, T_frac, T_money}

\* The headers: one column, and two columns in an order that is not the
\* alphabetical one.
Headers == {<<"A">>, <<"B", "A">>}

RowsOf(n) == UNION {[1..k -> [1..n -> TableCells]] : k \in 0..MaxRows}

Files == {Absent, Removed, EmptyFile, Garbled}
         \cup UNION {{Csv(h, rows) : rows \in RowsOf(Len(h))} : h \in Headers}

TypeSpecs == [ColNames -> TableTags \cup {NoTag}]

\* The non-empty stripped texts of the columns with a datetime tag.
DateCandidates(f, dt) ==
    IF f.kind # "csv" THEN {}
    ELSE {strip(f.rows[i][c]) : i \in 1..Len(f.rows),
                                c \in {d \in 1..Len(f.header) : dt[f.header[d]] \in DatetimeTags}}
         \ {<<>>}

\* The path is read only where the file is not found, so the files that are
\* read are all put at one path.
PathsOf(f) == IF f.kind = "csv" THEN {"gam.csv"} ELSE Paths

Init ==
    /\ file \in Files
    /\ csv_path \in PathsOf(file)
    /\ dtypes \in TypeSpecs
    /\ date_texts \in ParserChoices(DateCandidates(file, dtypes))
    /\ response = Pending
    /\ value = Pending
    /\ target_dtype = NoTag
    /\ cell_out = Pending
    /\ db = <<>>
    /\ request = Pending
    /\ reply = Pending

CleanCsvData ==
    /\ response = Pending
    /\ file # NoFile
    /\ response' = clean_csv_data(csv_path, file, dtypes, date_texts)
    /\ UNCHANGED <<value, target_dtype, cell_out, csv_path, file, dtypes, date_texts>>
    /\ UNCHANGED db_vars

Next == CleanCsvData

Spec == Init /\ [][Next]_vars

-----------------------------------------------------------------------------
(* The upload / query layer: upload_reports and run_query_on_duckdb.       *)
(* A DuckDB file is a function from table names to tables; a table is the  *)
(* sequence of its rows.  The SQL of a query is a SELECT of all the rows   *)
(* of one table.                                                           *)

\* The request has no X-INVOKED_FOR_THREAD_ID header
NoHeader == [kind |-> "no header"]

DefaultThreadId ==
    <<"5", "7", "f", "c", "9", "d", "4", "c", "-", "5", "a", "1", "6", "-",
      "4", "a", "a", "a", "-", "b", "0", "4", "4", "-",
      "7", "9", "2", "a", "d", "2", "c", "3", "5", "5", "d", "3">>

\* The thread ids of the sample requests
ThreadIds == {<<"a">>, <<"a", "-">>}

HeaderValues == {NoHeader} \cup {Str(t) : t \in {<<>>} \cup ThreadIds}

\* request.headers.get("X-INVOKED_FOR_THREAD_ID", "57fc9d4c-...")
headers_get(header) == IF header = NoHeader THEN DefaultThreadId ELSE header.s

\* The characters of the model that the class \w matches
WordChars == DigitSet \cup {"a", "b", "c", "d", "e", "f", "_"}

IsWordOrSpace(ch) == ch \in WordChars \cup Whitespace

\* re.sub(r'[^\w\s]', '', text)
_remove_special_chars(text) == SelectSeq(text, IsWordOrSpace)

DUCKDB_DIR == <<"d", "a", "t", "a">>

\* os.path.join(DUCKDB_DIR, f"{thread_id}.duckdb")
db_path(thread_id) ==
    DUCKDB_DIR \o <<"/">> \o thread_id \o <<".", "d", "u", "c", "k", "d", "b">>

\* f"GAM_{thread_id}"
gam_table(thread_id) == <<"G", "A", "M", "_">> \o thread_id

\* f"CM360_{thread_id}"
cm360_table(thread_id) == <<"C", "M", "3", "6", "0", "_">> \o thread_id

\* duckdb.connect(database=db_path): a file that is not there is created,
\* with no tables
connect(d, path) == IF path \in DOMAIN d THEN d ELSE (path :> <<>>) @@ d

\* DROP TABLE IF EXISTS name
drop_table_if_exists(tables, name) == [t \in (DOMAIN tables) \ {name} |-> tables[t]]

\* df.to_sql(name, con), on a connection where no table has that name
to_sql(tables, name, df) == (name :> df) @@ tables

\* pd.DataFrame(response.result): the frame of a list of records; a dict
\* whose one value is a scalar raises ValueError
DataFrame(result) ==
    IF result.kind = "list" THEN Return(result.items)
    ELSE Raise("ValueError", "If using all scalar values, you must pass an index")

\* Response(result=<a text>): what names the text, detail the values put in it
ResultText(what, detail) == [kind |-> "response", error |-> None,
                             result |-> [kind |-> "text", what |-> what, detail |-> detail]]

\* The truth value of response.error
truthy(v) == v # None /\ v # Str(<<>>)

\* The return of a handler together with the database files it leaves
Outcome(r, d) == [reply |-> r, db |-> d]

\* Lines 220-247: the two frames, then the database.  An exception of
\* pd.DataFrame leaves the handler before duckdb.connect.
upload_frames(thread_id, gam_df, cm360_df, d) ==
    IF gam_df.kind = "raise" THEN Outcome(Escaped(gam_df.exc), d)
    ELSE IF cm360_df.kind = "raise" THEN Outcome(Escaped(cm360_df.exc), d)
    ELSE
    LET path    == db_path(thread_id)
        con     == connect(d, path)
        dropped == drop_table_if_exists(
                       drop_table_if_exists(con[path], gam_table(thread_id)),
                       cm360_table(thread_id))
        filled  == to_sql(to_sql(dropped, gam_table(thread_id), gam_df.v),
                          cm360_table(thread_id), cm360_df.v)
    IN  Outcome(ResultText("Successfully loaded:",
                           [gam_count   |-> Len(gam_df.v),
                            cm360_count |-> Len(cm360_df.v),
                            gam_table   |-> gam_table(thread_id),
                            cm360_table |-> cm360_table(thread_id),
                            db_path     |-> path]),
                [con EXCEPT ![path] = filled])

\* Lines 214-221: the two tests of response.error, then the frames
upload_responses(thread_id, gam_response, cm360_response, d) ==
    IF gam_response.kind = "exception" THEN Outcome(gam_response, d)
    ELSE IF cm360_response.kind = "exception" THEN Outcome(cm360_response, d)
    ELSE IF truthy(gam_response.error)
    THEN Outcome(ResultText("Failed to parse GAM data, ", gam_response.error), d)
    ELSE IF truthy(cm360_response.error)
    THEN Outcome(ResultText("Failed to parse CM360 data, ", cm360_response.error), d)
    ELSE upload_frames(thread_id, DataFrame(gam_response.result),
                       DataFrame(cm360_response.result), d)

\* gam_response and cm360_response are what clean_csv_data returns for the two
\* files of the request (lines 211-212)
upload_reports(header, gam_response, cm360_response, d) ==
    IF headers_get(header) = <<>>
    THEN Outcome(ResultText("Thread ID is missing from request headers.", <<>>), d)
    ELSE upload_responses(_remove_special_chars(headers_get(header)),
                          gam_response, cm360_response, d)

\* sql_query is "SELECT * FROM <table>"
run_query_on_duckdb(header, table, d) ==
    LET thread_header == headers_get(header)
    IN  IF thread_header = <<>>
        THEN Outcome(ResultText("Thread ID is missing from request headers.", <<>>), d)
        ELSE
        LET thread_id == _remove_special_chars(thread_header)
            con       == connect(d, db_path(thread_id))
            tables    == con[db_path(thread_id)]
        IN  IF table \notin DOMAIN tables
            THEN Outcome(ResultText("Error executing query: ", table), con)
            ELSE IF tables[table] = <<>>
            THEN Outcome(ResultText("No discrepancies found (0 rows returned).", <<>>), con)
            ELSE Outcome(ResultText("Discrepancy Query Results:", tables[table]), con)

-----------------------------------------------------------------------------
(* Sequences of upload_reports and run_query_on_duckdb calls *)

\* What _access_file finds for a file name of the request: nothing at that
\* path, an empty file, a file with one row
CsvOne == Csv(<<"A">>, <<<<T_frac>>>>)

UploadFiles == {Absent, EmptyFile, CsvOne}

UploadDtypes == {[c \in ColNames |-> "float"], [c \in ColNames |-> "int"]}

\* The thread ids the requests end up with
CleanThreadIds ==
    {_remove_special_chars(headers_get(h)) : h \in {g \in HeaderValues : headers_get(g) # <<>>}}

QueryTables == {gam_table(t) : t \in CleanThreadIds} \cup {cm360_table(t) : t \in CleanThreadIds}

InitDb ==
    /\ db = <<>>
    /\ request = Pending
    /\ reply = Pending
    /\ value = Pending
    /\ target_dtype = NoTag
    /\ cell_out = Pending
    /\ csv_path = ""
    /\ file = NoFile
    /\ dtypes = <<>>
    /\ date_texts = {}
    /\ response = Pending

UploadReports ==
    \E header \in HeaderValues, gam_csv \in UploadFiles, cm360_csv \in UploadFiles,
       dt \in UploadDtypes :
      \E gam_response \in {clean_csv_data("gam.csv", gam_csv, dt, {})},
         cm360_response \in {clean_csv_data("cm360.csv", cm360_csv, dt, {})} :
        LET out == upload_reports(header, gam_response, cm360_response, db)
        IN  /\ request' = [handler |-> "upload_reports", header |-> header,
                           gam_csv |-> gam_csv, cm360_csv |-> cm360_csv, dtypes |-> dt]
            /\ reply' = out.reply
            /\ db' = out.db
            /\ UNCHANGED clean_vars

RunQuery ==
    \E header \in HeaderValues, table \in QueryTables :
        LET out == run_query_on_duckdb(header, table, db)
        IN  /\ request' = [handler |-> "run_query_on_duckdb", header |-> header,
                           table |-> table]
            /\ reply' = out.reply
            /\ db' = out.db
            /\ UNCHANGED clean_vars

NextDb == UploadReports \/ RunQuery

SpecDb == InitDb /\ [][NextDb]_vars

-----------------------------------------------------------------------------
(* Re-expressing cleaned values as text: str() of a Python value, as a CSV  *)
(* writer does, with None written as the empty field.                      *)

RECURSIVE NatText(_)
NatText(n) == IF n < 10 THEN <<Digits[n + 1]>> ELSE Append(NatText(n \div 10), Digits[(n % 10) + 1])

RECURSIVE Pow10(_)
Pow10(k) == IF k = 0 THEN 1 ELSE 10 * Pow10(k - 1)

RECURSIVE ZeroPad(_, _)
ZeroPad(t, width) == IF Len(t) >= width THEN t ELSE ZeroPad(<<"0">> \o t, width)

Abs(n) == IF n < 0 THEN -n ELSE n

SignText(n) == IF n < 0 THEN <<"-">> ELSE <<>>

\* str(int)
IntText(n) == SignText(n) \o NatText(Abs(n))

\* repr(float): positional notation, and exponent notation below 1e-04.
FloatText(m, e) ==
    LET mag    == Abs(m)
        digits == NatText(mag)
        exp10  == Len(digits) - 1 - e
    IN  IF e = 0 THEN IntText(m) \o <<".", "0">>
        ELSE IF mag # 0 /\ exp10 < -4 THEN
            SignText(m) \o <<Head(digits)>>
                \o (IF Len(digits) > 1 THEN <<".">> \o Tail(digits) ELSE <<>>)
                \o <<"e", "-">> \o ZeroPad(NatText(-exp10), 2)
        ELSE SignText(m) \o NatText(mag \div Pow10(e)) \o <<".">>
                \o ZeroPad(NatText(mag % Pow10(e)), e)

ToText(v) ==
    CASE v.kind = "None"  -> <<>>
      [] v.kind = "str"   -> v.s
      [] v.kind = "int"   -> IntText(v.n)
      [] v.kind = "float" -> FloatText(v.m, v.e)
      [] v.kind = "ts"    -> v.s

-----------------------------------------------------------------------------
(* Reference notions the claims are stated with, independent of the        *)
(* operators that model the code.                                          *)

\* The text with every character other than digits, '.' and '-' deleted.
RECURSIVE RefResidue(_)
RefResidue(t) ==
    IF t = <<>> THEN <<>>
    ELSE IF Head(t) \in {"0", "1", "2", "3", "4", "5", "6", "7", "8", "9", ".", "-"}
         THEN <<Head(t)>> \o RefResidue(Tail(t))
         ELSE RefResidue(Tail(t))

RefAllDigits(t) == \A i \in 1..Len(t) : t[i] \in DigitSet

\* A decimal numeral: an optional '-', digits, optionally a '.' and digits,
\* with a digit somewhere.
RefIsNumeral(r) ==
    LET b == IF r # <<>> /\ r[1] = "-" THEN SubSeq(r, 2, Len(r)) ELSE r
    IN  \E k \in 0..Len(b) :
            /\ RefAllDigits(SubSeq(b, 1, k))
            /\ \/ k = Len(b) /\ k >= 1
               \/ /\ k < Len(b)
                  /\ b[k + 1] = "."
                  /\ RefAllDigits(SubSeq(b, k + 2, Len(b)))
                  /\ Len(b) >= 2

\* The numeral's value is RefNum(r) / 10^RefScale(r).
RefScale(r) ==
    IF \E i \in 1..Len(r) : r[i] = "." THEN Len(r) - (CHOOSE i \in 1..Len(r) : r[i] = ".") ELSE 0

RECURSIVE RefDigitsValue(_)
RefDigitsValue(t) ==
    IF t = <<>> THEN 0
    ELSE IF t[Len(t)] \in DigitSet
         THEN 10 * RefDigitsValue(SubSeq(t, 1, Len(t) - 1)) + DigitVal(t[Len(t)])
         ELSE RefDigitsValue(SubSeq(t, 1, Len(t) - 1))

RefNum(r) == (IF r[1] = "-" THEN -1 ELSE 1) * RefDigitsValue(r)

RefIsWhole(r) == RefNum(r) % Pow10(RefScale(r)) = 0

\* v is a float equal to num / 10^scale
IsFloatOf(v, num, scale) == v.kind = "float" /\ v.m * Pow10(scale) = num * Pow10(v.e)

\* v is an integer equal to num / 10^scale
IsIntOf(v, num, scale) == v.kind = "int" /\ v.n * Pow10(scale) = num

RefBlank(t) == \A i \in 1..Len(t) : t[i] = " "

NumericTags == {"int", "int64", "float", "float64"}

\* The helper was called on a cell that is a text with something other than
\* white space in it, and that numeric tag.
CalledOnNumericCell ==
    /\ cell_out # Pending
    /\ target_dtype \in NumericTags
    /\ value.kind = "str"
    /\ ~RefBlank(value.s)

-----------------------------------------------------------------------------
(* Claims about _clean_value, checked under SpecValue *)

\* C1: for a numeric target and a non-missing cell whose digits, '.' and '-'
\* (in their order) form a numeral, _clean_value returns that numeral's number:
\* as a float for a float target, and as an integer for an integer target when
\* the number is whole.
C1_NumericValue ==
    (CalledOnNumericCell /\ RefIsNumeral(RefResidue(value.s))) =>
        LET r == RefResidue(value.s)
        IN  /\ target_dtype \in {"float", "float64"} =>
                IsFloatOf(cell_out, RefNum(r), RefScale(r))
            /\ (target_dtype \in {"int", "int64"} /\ RefIsWhole(r)) =>
                IsIntOf(cell_out, RefNum(r), RefScale(r))

\* "$1.5" under "float" gave 1.5
C1_Witness ==
    /\ value = Str(<<"$", "1", ".", "5">>)
    /\ target_dtype = "float"
    /\ cell_out = [kind |-> "float", m |-> 15, e |-> 1]

\* C5: with an integer target, a cell whose numeral has a nonzero fractional
\* part is returned as the float of that value: not an integer, not missing.
C5_FractionalStaysFloat ==
    (/\ CalledOnNumericCell
     /\ target_dtype \in {"int", "int64"}
     /\ RefIsNumeral(RefResidue(value.s))
     /\ ~RefIsWhole(RefResidue(value.s))) =>
        IsFloatOf(cell_out, RefNum(RefResidue(value.s)), RefScale(RefResidue(value.s)))

\* "10.5" under "int" gave the float 10.5
C5_Witness ==
    /\ value = Str(<<"1", "0", ".", "5">>)
    /\ target_dtype = "int"
    /\ cell_out = [kind |-> "float", m |-> 105, e |-> 1]

\* C7: with a numeric target, a non-missing cell whose digits, '.' and '-' do
\* not form a numeral (nothing left, only "-", or an invalid number) yields the
\* missing marker None.
C7_UnparseableIsMissing ==
    (CalledOnNumericCell /\ ~RefIsNumeral(RefResidue(value.s))) => cell_out = None

\* "1-5" under a numeric tag gave None
C7_Witness ==
    /\ value = Str(<<"1", "-", "5">>)
    /\ target_dtype \in NumericTags
    /\ cell_out = None

-----------------------------------------------------------------------------
(* Claims about clean_csv_data, checked under Spec *)

Done == response # Pending

Succeeded == Done /\ response.kind = "response" /\ response.result.kind = "list"

Items == response.result.items

\* The value of column c in record i of the result
OutCell(i, c) == Items[i][c][2]

\* The tag the type specification gives the file's column c
TagOf(c) == dtypes[file.header[c]]

RowIds == 1..Len(file.rows)

ColIds == 1..Len(file.header)

\* A text whose digits, '.' and '-' form a numeral with a fractional part
RefFractional(t) ==
    /\ RefIsNumeral(RefResidue(t))
    /\ ~RefIsWhole(RefResidue(t))

\* C2 (as claimed): for a file with an integer-target column the call returns
\* the records, one per row, and each cell of an integer-target column is an
\* integer or missing; no cell content makes the call report an error.
C2_IntColumnAbsorbs ==
    (Done /\ file.kind = "csv" /\ \E c \in ColIds : TagOf(c) \in {"int", "int64"}) =>
        /\ Succeeded
        /\ Len(Items) = Len(file.rows)
        /\ \A i \in RowIds, c \in ColIds :
              TagOf(c) \in {"int", "int64"} => OutCell(i, c).kind \in {"int", "None"}

\* C3 (as claimed): after a successful call no cell of the output is an empty
\* string, in any column, and a cell that was empty or white space in the
\* input is the missing marker.
C3_NoEmptyString ==
    (Succeeded /\ file.kind = "csv") =>
        \A i \in RowIds, c \in ColIds :
            /\ OutCell(i, c) # Str(<<>>)
            /\ RefBlank(file.rows[i][c]) => OutCell(i, c) = None

\* C4: in every column that has a type tag, whatever the tag, _clean_value
\* gives None for the empty string, for NaN (what an empty field is read as)
\* and for a field of white space only, and such fields are all the missing
\* marker None in the output, so they cannot be told apart there.
C4_MissingUnified ==
    (Succeeded /\ file.kind = "csv") =>
        \A i \in RowIds, c \in ColIds :
            (TagOf(c) # NoTag /\ RefBlank(file.rows[i][c])) =>
                /\ \A v \in {NaN, Str(<<>>), Str(file.rows[i][c])} :
                      _clean_value(v, TagOf(c), date_texts) = None
                /\ OutCell(i, c) = None
                /\ \A j \in RowIds : RefBlank(file.rows[j][c]) => OutCell(j, c) = OutCell(i, c)

\* an empty and a blank cell, under an integer and a datetime tag, both None
C4_Witness ==
    /\ Succeeded
    /\ file.kind = "csv"
    /\ file.header = <<"B", "A">>
    /\ Len(file.rows) >= 1
    /\ file.rows[1] = <<T_empty, T_blank>>
    /\ dtypes["B"] = "datetime"
    /\ dtypes["A"] = "int"
    /\ OutCell(1, 1) = None
    /\ OutCell(1, 2) = None

\* C6: the call always ends with a Response, never with an exception: for a
\* path that is no file the error names the path, and a failure of the read or
\* of the cleaning is the generic error with the cause's text.
C6_AlwaysAResponse ==
    Done =>
        /\ response.kind = "response"
        /\ file.kind \in {"absent", "removed"} =>
              response.result = [kind |-> "dict", error |-> <<"CSV file not found: ", csv_path>>]
        /\ file.kind = "garbled" =>
              response.result = [kind |-> "dict",
                                 error |-> <<"Error cleaning CSV: ", "Error tokenizing data">>]
        /\ (file.kind = "csv" /\ \E i \in RowIds, c \in ColIds :
                                    TagOf(c) \in {"int", "int64"} /\ RefFractional(file.rows[i][c])) =>
              response.result = [kind |-> "dict",
                                 error |-> <<"Error cleaning CSV: ",
                                             "cannot safely cast non-equivalent float64 to int64">>]

\* an unreadable file gave the generic error
C6_Witness ==
    /\ file = Garbled
    /\ Done
    /\ response.result.kind = "dict"
    /\ response.result.error[1] = "Error cleaning CSV: "

\* The output re-expressed as text, and cleaned again
Reexpressed == [i \in RowIds |-> [c \in ColIds |-> ToText(OutCell(i, c))]]

Recleaned == clean_csv_data(csv_path, Csv(file.header, Reexpressed), dtypes, date_texts)

\* C8 (as claimed): cleaning the re-expressed output of a successful call with
\* the same type specification succeeds and gives the same value in every
\* cell.  Stated for the columns without a datetime tag.
C8_Idempotent ==
    (Succeeded /\ file.kind = "csv") =>
        /\ Recleaned.result.kind = "list"
        /\ \A i \in RowIds, c \in ColIds :
              TagOf(c) \notin DatetimeTags => Recleaned.result.items[i][c] = Items[i][c]

\* The text between its first and its last character that is no blank
RefTrim(t) ==
    IF RefBlank(t) THEN <<>>
    ELSE LET inked == {i \in 1..Len(t) : t[i] # " "}
             first == CHOOSE i \in inked : \A j \in inked : i <= j
             last  == CHOOSE i \in inked : \A j \in inked : j <= i
         IN  SubSeq(t, first, last)

\* out is a value the field t can have in the output of a column tagged tag
RefMadeFrom(out, t, tag) ==
    LET r == RefResidue(t)
    IN  CASE tag \in {"int", "int64"} ->
                IF RefIsNumeral(r) /\ ~RefBlank(t)
                THEN IsIntOf(out, RefNum(r), RefScale(r)) ELSE out = None
          [] tag \in {"float", "float64"} ->
                IF RefIsNumeral(r) /\ ~RefBlank(t)
                THEN IsFloatOf(out, RefNum(r), RefScale(r)) ELSE out = None
          [] tag \in {"datetime", "datetime64[ns]"} ->
                \/ out = None
                \/ ~RefBlank(t) /\ out = Timestamp(RefTrim(t))
          [] OTHER ->
                IF t = <<>> \/ (tag # NoTag /\ RefBlank(t))
                THEN out = None ELSE out = Str(RefTrim(t))

\* C9: a successful call on a file of N rows returns N records, record i made
\* from row i, each with the header's columns in the header's order, whatever
\* columns the type specification covers.
C9_ShapePreserved ==
    (Succeeded /\ file.kind = "csv") =>
        /\ Len(Items) = Len(file.rows)
        /\ \A i \in RowIds :
              /\ [c \in ColIds |-> Items[i][c][1]] = file.header
              /\ \A c \in ColIds : RefMadeFrom(OutCell(i, c), file.rows[i][c], TagOf(c))

\* columns [B, A], only A in effect typed, two different rows, two records
C9_Witness ==
    /\ Succeeded
    /\ file.kind = "csv"
    /\ file.header = <<"B", "A">>
    /\ dtypes["B"] = NoTag
    /\ dtypes["A"] = "float"
    /\ file.rows = <<<<T_money, T_frac>>, <<T_blank, T_empty>>>>
    /\ Len(Items) = 2
    /\ Items[1] = <<<<"B", Str(<<"$", "1", ",", "0", "0", "0">>)>>,
                    <<"A", [kind |-> "float", m |-> 105, e |-> 1]>>>>

\* C10: a header-only file, under any type specification, and a file with no
\* content give the successful empty result.
C10_EmptyInput ==
    (Done /\ (file.kind = "empty" \/ (file.kind = "csv" /\ file.rows = <<>>))) =>
        /\ response.kind = "response"
        /\ response.result.kind = "list"
        /\ response.result.items = <<>>

\* a header-only file with an integer column and one of an unknown tag gave []
C10_Witness ==
    /\ Done
    /\ file.kind = "csv"
    /\ file.rows = <<>>
    /\ file.header = <<"B", "A">>
    /\ dtypes["B"] = "int"
    /\ dtypes["A"] = "foo"
    /\ response.result = [kind |-> "list", items |-> <<>>]

\* C11: in the records of a successful call no cell is a NaN, an NA or a NaT,
\* whatever the column's tag: a cell that is missing in the cleaned table
\* (an empty field in any column, a text a datetime column could not parse)
\* is None.
C11_MissingIsNone ==
    (Succeeded /\ file.kind = "csv") =>
        \A i \in RowIds, c \in ColIds :
            /\ OutCell(i, c).kind \notin {"nan", "NA", "NaT"}
            /\ file.rows[i][c] = <<>> => OutCell(i, c) = None
            /\ (TagOf(c) \in {"datetime", "datetime64[ns]"}
                    /\ RefTrim(file.rows[i][c]) \notin date_texts) => OutCell(i, c) = None

\* an empty field of an integer column (NA) and an unparsed text of a datetime
\* column (NaT) are both None in the record
C11_Witness ==
    /\ Succeeded
    /\ file.kind = "csv"
    /\ file.header = <<"B", "A">>
    /\ Len(file.rows) >= 1
    /\ file.rows[1] = <<T_empty, T_frac>>
    /\ dtypes["B"] = "int"
    /\ dtypes["A"] = "datetime"
    /\ date_texts = {}
    /\ Items[1] = <<<<"B", None>>, <<"A", None>>>>

\* The tags that are neither numeric nor string
OtherTags == {"datetime64[ns]", "datetime", "foo"}

\* astype of the one-cell series cannot convert the text t to the type tag names
RefUnconvertible(t, tag) == tag # "datetime64[ns]" \/ RefTrim(t) \notin date_texts

\* C12: for a column whose tag is neither numeric nor string, _clean_value
\* returns the stripped text of every non-blank cell it cannot convert; the
\* call does not fail for it (a call on a CSV file fails only for a fractional
\* number in an integer column), and where the column-level conversion fails
\* too the record holds that stripped text.
C12_FallbackToText ==
    (Done /\ file.kind = "csv") =>
        /\ \A i \in RowIds, c \in ColIds :
              (TagOf(c) \in OtherTags /\ ~RefBlank(file.rows[i][c])
                    /\ RefUnconvertible(file.rows[i][c], TagOf(c))) =>
                 /\ _clean_value(Str(file.rows[i][c]), TagOf(c), date_texts)
                        = Str(RefTrim(file.rows[i][c]))
                 /\ (Succeeded /\ TagOf(c) = "foo")
                        => OutCell(i, c) = Str(RefTrim(file.rows[i][c]))
        /\ ~Succeeded =>
              \E i \in RowIds, c \in ColIds :
                  TagOf(c) \in {"int", "int64"} /\ RefFractional(file.rows[i][c])

\* a column of an unknown type and a datetime column, each with a text that
\* cannot be converted: the call succeeds, the first keeps the stripped text
C12_Witness ==
    /\ Succeeded
    /\ file.kind = "csv"
    /\ file.header = <<"B", "A">>
    /\ Len(file.rows) >= 1
    /\ file.rows[1] = <<T_money, T_frac>>
    /\ dtypes["B"] = "foo"
    /\ dtypes["A"] = "datetime"
    /\ Items[1][1] = <<"B", Str(<<"$", "1", ",", "0", "0", "0">>)>>

-----------------------------------------------------------------------------
(* Claims about upload_reports and run_query_on_duckdb (SpecDb) *)

\* clean_csv_data reported a failure: its result is the {"error": ...} dict
ReportsFailure(resp) == resp.kind = "response" /\ resp.result.kind = "dict"

\* The request is an upload that got as far as calling clean_csv_data
IsUpload(req) ==
    /\ req # Pending
    /\ req.handler = "upload_reports"
    /\ headers_get(req.header) # <<>>

\* What clean_csv_data returns for the two files of the upload
GamResponseOf(req) == clean_csv_data("gam.csv", req.gam_csv, req.dtypes, {})

Cm360ResponseOf(req) == clean_csv_data("cm360.csv", req.cm360_csv, req.dtypes, {})

\* C13 (as claimed): an upload for which clean_csv_data reports a failure on
\* the GAM or the CM360 file returns a "Failed to parse ... data" message,
\* does not raise, and leaves every database file and table as it was.
C13_FailureStopsUpload ==
    [][(IsUpload(request')
            /\ (ReportsFailure(GamResponseOf(request'))
                    \/ ReportsFailure(Cm360ResponseOf(request'))))
        => /\ reply'.kind = "response"
           /\ reply'.result.what \in {"Failed to parse GAM data, ",
                                      "Failed to parse CM360 data, "}
           /\ db' = db]_vars

\* The thread id of a request
ThreadOf(req) == headers_get(req.header)

\* The tables that a query for the thread id reads, with their rows
TablesOf(id, d) ==
    LET thread_id == _remove_special_chars(id)
        path      == db_path(thread_id)
        present   == IF path \in DOMAIN d
                     THEN {gam_table(thread_id), cm360_table(thread_id)} \cap DOMAIN d[path]
                     ELSE {}
    IN  [t \in present |-> d[path][t]]

\* C14 (as claimed): an upload for one thread id neither drops nor replaces a
\* table that a query for any other thread id reads: each is still there, with
\* the rows it had.
C14_ThreadIsolation ==
    [][IsUpload(request')
        => \A h \in HeaderValues :
              (headers_get(h) # <<>> /\ headers_get(h) # ThreadOf(request'))
                  => \A t \in DOMAIN TablesOf(headers_get(h), db) :
                        /\ t \in DOMAIN TablesOf(headers_get(h), db')
                        /\ TablesOf(headers_get(h), db')[t] = TablesOf(headers_get(h), db)[t]]_vars

====
